---- MODULE Spec2Model ----
(***************************************************************************)
(* sql_sandbox: the sandbox lifecycle manager.                             *)
(*                                                                         *)
(* The repository holds two versions of the manager: the one that works   *)
(* through an administrative connection to the maintenance database        *)
(* (src/unnamed/part_000, impl = "admin") and the one that works through   *)
(* a connection to the main database (src/sandbox.go, impl = "main").      *)
(* A run of the model uses one of them, chosen in Init.                    *)
(*                                                                         *)
(* The PostgreSQL cluster is the catalog: a function from the names of the *)
(* existing databases to their content. Goroutines (threads) call New and  *)
(* Close; every statement that reaches the cluster is one step.            *)
(***************************************************************************)
EXTENDS Integers, Sequences, FiniteSets, TLC

VARIABLES impl, pids, now, faults, catalog, thread, sandbox, mu, closeLog,
          connStr, newDBName, result, names, checker, applied, commands,
          configs, sources

\* The calls of the string functions and of the name generator on their own:
\* the arguments, the results, the names generated so far.
fnVars == <<connStr, newDBName, result, names>>

\* The MigrationChecker the callers pass to New with what it finds on the
\* machine, the migrations it has applied to the main database, in order, and
\* the commands it has run.
migVars == <<checker, applied, commands>>

\* The Config values that exist (the caller's own has id 0, the one
\* DefaultConfig() returns to the call of thread t has id t) and the
\* descriptors of the source the callers pass to New.
cfgVars == <<configs, sources>>

vars ==
    <<impl, pids, now, faults, catalog, thread, sandbox, mu, closeLog, fnVars,
      migVars, cfgVars>>

(***************************************************************************)
(* Bounds of the model.                                                    *)
(***************************************************************************)
MaxClock == 1
MaxSchema == 1
MaxFaults == 1
MaxCloses == 2
MaxParams == 2
MaxNames == 3

\* Two goroutines call the manager; they run in one process or in two.
Threads == {1, 2}

(***************************************************************************)
(* Database names. A name is <<prefix, timestamp, pid>>; the fixed names   *)
(* carry 0, 0.                                                             *)
(***************************************************************************)
NoName == <<"", 0, 0>>
MainDBName == <<"main_db", 0, 0>>
TemplateDBName == <<"template_test", 0, 0>>
TestDBPrefix == "test_db_"

\* generateUniqueDBName: prefix, time.Now().UnixNano(), os.Getpid().
generateUniqueDBName(prefix, timestamp, p) == <<prefix, timestamp, p>>

(***************************************************************************)
(* Error texts: a text is the set of the phrases that occur in it, so that *)
(* strings.Contains(text, phrase) is membership.                           *)
(***************************************************************************)
Contains(text, phrase) == phrase \in text

ErrAlreadyExists == {"already exists"}
ErrDuplicateKey == {"duplicate key value violates unique constraint", "pg_database_datname_index"}
ErrReworded == {"exists"}
ErrOther == {"is being accessed by other users"}
ErrClosed == {"sql: database is closed"}
ErrQuery == {"connection refused"}
NoErr == {}

\* The texts the cluster may give for CREATE DATABASE of an existing name.
DuplicateTexts == {ErrAlreadyExists, ErrDuplicateKey, ErrReworded}

\* createTemplateDatabase: the three duplicate signatures.
isDuplicateText(errStr) ==
    \/ Contains(errStr, "already exists")
    \/ Contains(errStr, "duplicate key value violates unique constraint")
    \/ Contains(errStr, "pg_database_datname_index")

(***************************************************************************)
(* The cluster's statements.                                               *)
(***************************************************************************)
Exists(cat, name) == name \in DOMAIN cat

\* CREATE DATABASE name TEMPLATE tmpl, run for the call `by`.
CreateDatabase(cat, name, tmpl, by) ==
    [n \in DOMAIN cat \cup {name} |->
        IF n = name
        THEN [tables |-> cat[tmpl].tables, rows |-> cat[tmpl].rows,
              from |-> tmpl, by |-> by]
        ELSE cat[n]]

\* A CREATE DATABASE that replaces a database of the same name.
CanCreateOver(cat, name, tmpl) == Exists(cat, tmpl)

\* CREATE DATABASE name TEMPLATE tmpl is refused when the name is taken or
\* the template is missing.
CanCreate(cat, name, tmpl) == ~Exists(cat, name) /\ Exists(cat, tmpl)

\* A DROP that takes the template with the database.
DropDatabaseAndTemplate(cat, name) ==
    [n \in DOMAIN cat \ {name, TemplateDBName} |-> cat[n]]

\* A DROP that removes every database whose name has the prefix of `name`.
DropDatabasesLike(cat, name) ==
    [n \in {m \in DOMAIN cat : m[1] # name[1]} |-> cat[n]]

\* DROP DATABASE IF EXISTS name.
DropDatabase(cat, name) == [n \in DOMAIN cat \ {name} |-> cat[n]]

(***************************************************************************)
(* Strings. A string is a sequence of tokens: a token is a delimiter       *)
(* (" ", "?", "&", "=", "/"), a scheme, or a run of other characters. The  *)
(* functions of package strings are computed on the tokens.                *)
(***************************************************************************)
HasPrefix(s, prefix) ==
    Len(s) >= Len(prefix) /\ SubSeq(s, 1, Len(prefix)) = prefix

TrimPrefix(s, prefix) ==
    IF HasPrefix(s, prefix) THEN SubSeq(s, Len(prefix) + 1, Len(s)) ELSE s

\* strings.Contains
StringsContains(s, substr) ==
    \E i \in 1 .. (Len(s) - Len(substr) + 1) :
        SubSeq(s, i, i + Len(substr) - 1) = substr

\* Position of the first token `sep` in s, 0 when there is none.
Index(s, sep) ==
    IF \E i \in DOMAIN s : s[i] = sep
    THEN CHOOSE i \in DOMAIN s : s[i] = sep /\ \A j \in 1 .. (i - 1) : s[j] # sep
    ELSE 0

\* strings.Split(s, sep) for a separator of one token.
RECURSIVE Split(_, _)
Split(s, sep) ==
    IF Index(s, sep) = 0
    THEN <<s>>
    ELSE <<SubSeq(s, 1, Index(s, sep) - 1)>>
         \o Split(SubSeq(s, Index(s, sep) + 1, Len(s)), sep)

\* strings.Join(parts, sep)
RECURSIVE Join(_, _)
Join(parts, sep) ==
    IF Len(parts) = 0 THEN <<>>
    ELSE IF Len(parts) = 1 THEN parts[1]
    ELSE parts[1] \o <<sep>> \o Join(Tail(parts), sep)

\* The literal "dbname=".
DbnameEq == <<"dbname", "=">>

\* Position of the first part that has the prefix "dbname=", 0 when none has.
FirstDbnamePart(parts) ==
    IF \E i \in DOMAIN parts : HasPrefix(parts[i], DbnameEq)
    THEN CHOOSE i \in DOMAIN parts :
            /\ HasPrefix(parts[i], DbnameEq)
            /\ \A j \in 1 .. (i - 1) : ~HasPrefix(parts[j], DbnameEq)
    ELSE 0

\* replaceDBName replaces the database name in a connection string.
replaceDBName(conn, newName) ==
    IF StringsContains(conn, DbnameEq)
    THEN LET parts == Split(conn, " ")
             first == FirstDbnamePart(parts)
         IN  Join([i \in DOMAIN parts |->
                      IF i = first THEN DbnameEq \o newName ELSE parts[i]], " ")
    ELSE IF StringsContains(conn, <<"?">>)
    THEN conn \o <<"&">> \o DbnameEq \o newName
    ELSE conn \o <<"?">> \o DbnameEq \o newName

\* url.Parse: what follows the scheme is the authority up to the first "/" or
\* "?", the path up to the first "?", and the raw query after it. A space is
\* not accepted.
UrlRest(conn) == Tail(conn)

UrlParseFails(conn) == \E i \in DOMAIN conn : conn[i] = " "

UrlBeforeQuery(conn) ==
    IF Index(UrlRest(conn), "?") = 0 THEN UrlRest(conn)
    ELSE SubSeq(UrlRest(conn), 1, Index(UrlRest(conn), "?") - 1)

UrlPath(conn) ==
    IF Index(UrlBeforeQuery(conn), "/") = 0 THEN <<>>
    ELSE SubSeq(UrlBeforeQuery(conn), Index(UrlBeforeQuery(conn), "/"),
                Len(UrlBeforeQuery(conn)))

UrlRawQuery(conn) ==
    IF Index(UrlRest(conn), "?") = 0 THEN <<>>
    ELSE SubSeq(UrlRest(conn), Index(UrlRest(conn), "?") + 1, Len(UrlRest(conn)))

\* u.Query().Get(key): the value of the first pair of the query with this key.
QueryGet(query, key) ==
    LET pairs == Split(query, "&")
        hit(i) == HasPrefix(pairs[i], <<key, "=">>)
    IN  IF \E i \in DOMAIN pairs : hit(i)
        THEN TrimPrefix(pairs[CHOOSE i \in DOMAIN pairs :
                                  hit(i) /\ \A j \in 1 .. (i - 1) : ~hit(j)],
                        <<key, "=">>)
        ELSE <<>>

Schemes == {"postgres://", "postgresql://"}

\* extractDBName: the DSN form first, the URL form second, "" otherwise.
extractDBName(conn) ==
    LET parts == Split(conn, " ")
        first == FirstDbnamePart(parts)
    IN  IF StringsContains(conn, DbnameEq) /\ first # 0
        THEN TrimPrefix(parts[first], DbnameEq)
        ELSE IF Len(conn) > 0 /\ conn[1] \in Schemes /\ ~UrlParseFails(conn)
        THEN IF TrimPrefix(UrlPath(conn), <<"/">>) # <<>>
             THEN TrimPrefix(UrlPath(conn), <<"/">>)
             ELSE QueryGet(UrlRawQuery(conn), "dbname")
        ELSE <<>>

(***************************************************************************)
(* Source descriptors: the keyword/value form and the URL form, with up to *)
(* MaxParams parameters, and the names a caller asks for.                  *)
(***************************************************************************)
Param(key, value) == <<key, "=", value>>

SeqsOfDistinct(S, n) ==
    UNION {{q \in [1 .. k -> S] : \A i, j \in 1 .. k : i # j => q[i] # q[j]} :
              k \in 0 .. n}

DsnParams ==
    {Param("host", "localhost"), Param("dbname", "main_db"),
     Param("sslmode", "disable")}

QueryParams == {Param("sslmode", "disable"), Param("dbname", "main_db")}

DsnDescriptors ==
    {Join(q, " ") : q \in SeqsOfDistinct(DsnParams, MaxParams) \ {<<>>}}

UrlDescriptors ==
    {<<scheme, "localhost">> \o path
        \o (IF q = <<>> THEN <<>> ELSE <<"?">> \o Join(q, "&")) :
        scheme \in Schemes,
        path \in {<<>>, <<"/">>, <<"/", "main_db">>, <<"/", "main_db", "/">>},
        q \in SeqsOfDistinct(QueryParams, MaxParams)}

Descriptors == DsnDescriptors \cup UrlDescriptors

NewNames == {<<"postgres">>, <<"test_db_1_1">>}

NoResult ==
    [replaced |-> FALSE, out |-> <<>>, extracted |-> FALSE, name |-> <<>>,
     parsed |-> FALSE, dbname |-> <<>>,
     again |-> FALSE, second |-> <<>>, out2 |-> <<>>]

(***************************************************************************)
(* State after construction: a cluster that holds the main database only,  *)
(* no call in progress.                                                    *)
(***************************************************************************)
\* DefaultConfig(); MainDBURL is set by New.
DefaultConfig ==
    [MainDBURL |-> <<>>, TemplateDBName |-> TemplateDBName,
     TestDBPrefix |-> TestDBPrefix, MaxConnections |-> 10, ConnectionTimeout |-> 30]

\* The Config values a caller builds: the pool fields as sandbox_test.go
\* sets them, or left at their zero values.
CallerConfigs ==
    {[DefaultConfig EXCEPT !.MaxConnections = n, !.ConnectionTimeout = d] :
        n \in {0, 5}, d \in {0, 10}}

\* The source as the callers describe it: in the URL form, in the keyword/
\* value form; a URL may name the database in its path or in its query.
SourceUrl == <<"postgres://", "localhost", "/", "main_db">>
SourceUrlQuery == <<"postgres://", "localhost", "?", "dbname", "=", "main_db">>
SourceDsn == Join(<<Param("host", "localhost"), Param("dbname", "main_db")>>, " ")

NoSandbox ==
    [state |-> "none", TemplateDB |-> "nil", TestDB |-> "nil", DBName |-> NoName,
     Config |-> -1,
     tmplAtCall |-> FALSE, tablesAtCall |-> {}, faulted |-> FALSE,
     failedAt |-> "", stmtFailed |-> FALSE, error |-> NoErr, migratedAtCall |-> FALSE,
     mainDBURL |-> <<>>, closeSteps |-> <<>>,
     MaxOpenConns |-> -1, ConnMaxLifetime |-> -1]

\* A MigrationChecker: the implementation (kind; "any" is an implementation
\* of the interface of which nothing is known) and what it finds: the
\* migrations directory, the goose binary, the migration-tracking table of
\* the main database, the callback of a CustomMigrationChecker.
AnyChecker ==
    [kind |-> "any", dirExists |-> TRUE, binaryFound |-> TRUE, tracked |-> TRUE,
     CheckFunc |-> "func"]

Checkers ==
    {AnyChecker}
    \cup {[AnyChecker EXCEPT !.kind = "default", !.tracked = b] : b \in BOOLEAN}
    \cup {[AnyChecker EXCEPT !.kind = "golang", !.dirExists = b] : b \in BOOLEAN}
    \cup {[AnyChecker EXCEPT !.kind = "goose", !.dirExists = b, !.binaryFound = c] :
             b, c \in BOOLEAN}
    \cup {[AnyChecker EXCEPT !.kind = "custom", !.CheckFunc = f] :
             f \in {"nil", "func"}}

Idle == [pc |-> "ready", target |-> 0, errors |-> <<>>, err |-> NoErr, steps |-> <<>>]

\* What the code does at each position of New and of Close: the call or the
\* statement that the step of that position executes.
Statement(pc) ==
    CASE pc = "migrate" -> "EnsureMigrated"
      [] pc = "openAdmin" -> "sql.Open adminConnStr"
      [] pc = "openMain" -> "sql.Open MainDBURL"
      [] pc \in {"createTemplate", "createTemplateMain"} -> "CREATE DATABASE template"
      [] pc \in {"checkCatalog", "checkExists"} -> "SELECT EXISTS pg_database"
      [] pc = "currentDB" -> "SELECT current_database"
      [] pc = "genName" -> "generateUniqueDBName"
      [] pc = "createTest" -> "CREATE DATABASE test"
      [] pc = "openTest" -> "sql.Open testConnStr"
      [] pc = "closeTest" -> "TestDB.Close"
      [] pc = "terminate" -> "pg_terminate_backend"
      [] pc = "drop" -> "DROP DATABASE IF EXISTS"
      [] pc = "closeAdmin" -> "TemplateDB.Close"

Init ==
    /\ impl \in {"admin", "main"}
    /\ pids \in {[t \in Threads |-> 1], [t \in Threads |-> t]}
    /\ now = 0
    /\ faults = 0
    /\ catalog = [n \in {MainDBName} |->
                    [tables |-> {}, rows |-> {}, from |-> NoName, by |-> 0]]
    /\ thread = [t \in Threads |-> Idle]
    /\ sandbox = [t \in Threads |-> NoSandbox]
    /\ mu = [t \in Threads |-> 0]
    /\ closeLog = [t \in Threads |-> <<>>]
    /\ connStr = <<>>
    /\ newDBName = <<>>
    /\ result = NoResult
    /\ names = <<>>
    /\ checker = AnyChecker
    /\ applied = <<>>
    /\ commands = <<>>
    /\ configs = [c \in Threads |-> DefaultConfig]
    /\ sources = {SourceUrl}

(***************************************************************************)
(* The environment. A migration is applied to the main database; a test    *)
(* writes through the pooled connection. The clock is read by              *)
(* generateUniqueDBName only: `now` is the last reading, and a reading is  *)
(* never earlier than the last one. A statement, a query or a connection   *)
(* may fail for a reason outside the catalog: `faults` counts these.       *)
(***************************************************************************)
Fault(failed) ==
    IF failed
    THEN faults < MaxFaults /\ faults' = faults + 1
    ELSE faults' = faults

RunMigration ==
    /\ Cardinality(catalog[MainDBName].tables) < MaxSchema
    /\ catalog' = [catalog EXCEPT ![MainDBName].tables =
                      @ \cup {Cardinality(@) + 1}]
    /\ UNCHANGED <<cfgVars, fnVars, migVars, impl, pids, now, faults, thread, sandbox, mu, closeLog>>

\* A test inserts a row through Sandbox.DB() (s.TestDB).
InsertRow(s) ==
    /\ sandbox[s].state = "ok"
    /\ sandbox[s].TestDB = "open"
    /\ Exists(catalog, sandbox[s].DBName)
    /\ catalog[sandbox[s].DBName].by = s
    /\ catalog[sandbox[s].DBName].rows = {}
    /\ catalog' = [catalog EXCEPT ![sandbox[s].DBName].rows = {"john@example.com"}]
    /\ UNCHANGED <<cfgVars, fnVars, migVars, impl, pids, now, faults, thread, sandbox, mu, closeLog>>

(***************************************************************************)
(* NewWithMigrationChecker. A return closes mainDB in the "main" version   *)
(* (defer mainDB.Close()) and leaves adminDB as it is in the "admin" one.  *)
(***************************************************************************)
deferClose(db) == IF impl = "main" /\ db = "open" THEN "closed" ELSE db

\* The descriptor a step is given: config.MainDBURL for the checker, the
\* rewritten descriptors for the connections (sandbox.go opens the first one
\* with config.MainDBURL itself); fmt.Sprintf gives the name its text.
Argument(t) ==
    LET url == configs[sandbox[t].Config].MainDBURL
    IN  CASE thread[t].pc = "migrate" -> url
          [] thread[t].pc = "openAdmin" -> replaceDBName(url, <<"postgres">>)
          [] thread[t].pc = "openMain" -> url
          [] thread[t].pc = "openTest" ->
                replaceDBName(url, <<ToString(sandbox[t].DBName)>>)
          [] OTHER -> <<>>

\* The steps of the running call, the one being executed included, with
\* what it was given and whether it returned an error.
Step(t, failed) ==
    Append(thread[t].steps,
           [stmt |-> Statement(thread[t].pc), arg |-> Argument(t), failed |-> failed])

Done(t) == Step(t, FALSE)

\* return nil, fmt.Errorf(...); `fault` tells a failure of the environment
\* from an error the catalog explains, failedAt keeps the step that failed.
ReturnErrText(t, fault, text) ==
    /\ sandbox' = [sandbox EXCEPT ![t].state = "err",
                                  ![t].TemplateDB = deferClose(@),
                                  ![t].faulted = @ \/ fault,
                                  ![t].failedAt = thread[t].pc,
                                  ![t].error = text]
    /\ thread' = [thread EXCEPT ![t] = Idle]

ReturnErr(t, fault) == ReturnErrText(t, fault, NoErr)

Goto(t, label) == thread' = [thread EXCEPT ![t].pc = label, ![t].steps = Done(t)]

NewCall(t) ==
    /\ thread[t].pc = "ready"
    /\ sandbox[t].state = "none"
    /\ \E mainDBURL \in sources, config \in {-1} \cup (DOMAIN configs \ Threads) :
        LET c == IF config = -1 THEN t ELSE config
        IN  /\ configs' = [configs EXCEPT ![c].MainDBURL = mainDBURL]
            /\ sandbox' = [sandbox EXCEPT
                  ![t].state = "running",
                  ![t].Config = c,
                  ![t].mainDBURL = mainDBURL,
                  ![t].tmplAtCall = Exists(catalog, TemplateDBName),
                  ![t].tablesAtCall = catalog[MainDBName].tables,
                  ![t].migratedAtCall = applied # <<>>]
    /\ thread' = [thread EXCEPT ![t].pc = "migrate"]
    /\ UNCHANGED <<sources, fnVars, migVars, impl, pids, now, faults, catalog, mu,
                   closeLog>>

\* migrationChecker.EnsureMigrated(config.MainDBURL)
EnsureMigrated(t) ==
    /\ thread[t].pc = "migrate"
    /\ checker.kind = "any"
    /\ \E err \in BOOLEAN :
        /\ Fault(err)
        /\ IF err
           THEN ReturnErr(t, TRUE)
           ELSE /\ Goto(t, IF impl = "admin" THEN "openAdmin" ELSE "openMain")
                /\ UNCHANGED sandbox
    /\ UNCHANGED <<cfgVars, fnVars, migVars, impl, pids, now, catalog, mu, closeLog>>

\* sql.Open("postgres", adminConnStr)
OpenAdmin(t) ==
    /\ thread[t].pc = "openAdmin"
    /\ \E err \in BOOLEAN :
        /\ Fault(err)
        /\ IF err
           THEN ReturnErr(t, TRUE)
           ELSE /\ sandbox' = [sandbox EXCEPT ![t].TemplateDB = "open"]
                /\ Goto(t, "createTemplate")
    /\ UNCHANGED <<cfgVars, fnVars, migVars, impl, pids, now, catalog, mu, closeLog>>

\* createTemplateDatabase (part_000): CREATE DATABASE first; a recognised
\* duplicate is success, any other error leads to the catalog query.
CreateTemplate(t) ==
    /\ thread[t].pc = "createTemplate"
    /\ IF Exists(catalog, TemplateDBName)
       THEN /\ \E text \in DuplicateTexts :
                thread' = [thread EXCEPT
                    ![t].pc = IF isDuplicateText(text) THEN "genName" ELSE "checkCatalog",
                    ![t].steps = Step(t, TRUE),
                    ![t].err = IF isDuplicateText(text) THEN NoErr ELSE text]
            /\ UNCHANGED <<catalog, sandbox, faults>>
       ELSE \E err \in BOOLEAN :
            /\ Fault(err)
            /\ IF err
               THEN /\ thread' = [thread EXCEPT ![t].pc = "checkCatalog",
                                                ![t].steps = Step(t, TRUE),
                                                ![t].err = ErrOther]
                    /\ sandbox' = [sandbox EXCEPT ![t].faulted = TRUE]
                    /\ UNCHANGED catalog
               ELSE /\ catalog' = CreateDatabase(catalog, TemplateDBName, MainDBName, t)
                    /\ Goto(t, "genName")
                    /\ UNCHANGED sandbox
    /\ UNCHANGED <<cfgVars, fnVars, migVars, impl, pids, now, mu, closeLog>>

\* A createTemplateDatabase that reports what the catalog query returned.
templateErrorOfQuery(err, checkErr) ==
    checkErr \cup {"failed to create template database"}

\* fmt.Errorf("failed to create template database: %w", err)
templateError(err, checkErr) ==
    err \cup {"failed to create template database"}

\* A createTemplateDatabase that takes an answered query for a confirmation.
answered(checkErr, exists) == ~checkErr

\* checkErr == nil && exists
verified(checkErr, exists) == ~checkErr /\ exists

\* createTemplateDatabase (part_000): the catalog query after an unrecognised error.
CheckCatalog(t) ==
    /\ thread[t].pc = "checkCatalog"
    /\ \E checkErr \in BOOLEAN :
        /\ Fault(checkErr)
        /\ IF verified(checkErr, Exists(catalog, TemplateDBName))
           THEN /\ thread' = [thread EXCEPT ![t].pc = "genName", ![t].steps = Done(t),
                                            ![t].err = NoErr]
                /\ UNCHANGED sandbox
           ELSE ReturnErrText(t, checkErr,
                              templateError(thread[t].err,
                                            IF checkErr THEN ErrQuery ELSE NoErr))
    /\ UNCHANGED <<cfgVars, fnVars, migVars, impl, pids, now, catalog, mu, closeLog>>

\* sql.Open("postgres", config.MainDBURL) (sandbox.go)
OpenMain(t) ==
    /\ thread[t].pc = "openMain"
    /\ \E err \in BOOLEAN :
        /\ Fault(err)
        /\ IF err
           THEN ReturnErr(t, TRUE)
           ELSE /\ sandbox' = [sandbox EXCEPT ![t].TemplateDB = "open"]
                /\ Goto(t, "checkExists")
    /\ UNCHANGED <<cfgVars, fnVars, migVars, impl, pids, now, catalog, mu, closeLog>>

\* createTemplateDatabase (sandbox.go): SELECT EXISTS(... pg_database ...)
CheckExists(t) ==
    /\ thread[t].pc = "checkExists"
    /\ \E err \in BOOLEAN :
        /\ Fault(err)
        /\ IF err
           THEN ReturnErr(t, TRUE)
           ELSE /\ Goto(t, IF Exists(catalog, TemplateDBName)
                           THEN "genName" ELSE "currentDB")
                /\ UNCHANGED sandbox
    /\ UNCHANGED <<cfgVars, fnVars, migVars, impl, pids, now, catalog, mu, closeLog>>

\* createTemplateDatabase (sandbox.go): SELECT current_database()
CurrentDatabase(t) ==
    /\ thread[t].pc = "currentDB"
    /\ \E err \in BOOLEAN :
        /\ Fault(err)
        /\ IF err
           THEN ReturnErr(t, TRUE)
           ELSE /\ Goto(t, "createTemplateMain")
                /\ UNCHANGED sandbox
    /\ UNCHANGED <<cfgVars, fnVars, migVars, impl, pids, now, catalog, mu, closeLog>>

\* createTemplateDatabase (sandbox.go): CREATE DATABASE, every error returned.
CreateTemplateMain(t) ==
    /\ thread[t].pc = "createTemplateMain"
    /\ \E err \in BOOLEAN :
        /\ Fault(err)
        /\ IF err \/ Exists(catalog, TemplateDBName)
           THEN /\ ReturnErr(t, err)
                /\ UNCHANGED catalog
           ELSE /\ catalog' = CreateDatabase(catalog, TemplateDBName, MainDBName, t)
                /\ Goto(t, "genName")
                /\ UNCHANGED sandbox
    /\ UNCHANGED <<cfgVars, fnVars, migVars, impl, pids, now, mu, closeLog>>

\* testDBName := generateUniqueDBName(config.TestDBPrefix)
GenerateName(t) ==
    /\ thread[t].pc = "genName"
    /\ \E timestamp \in now .. MaxClock :
        /\ now' = timestamp
        /\ sandbox' = [sandbox EXCEPT ![t].DBName =
                          generateUniqueDBName(TestDBPrefix, timestamp, pids[t])]
    /\ Goto(t, "createTest")
    /\ UNCHANGED <<cfgVars, fnVars, migVars, impl, pids, faults, catalog, mu, closeLog>>

\* The template createTestDatabase is given: config.TemplateDBName (part_000),
\* the literal "main_db" (sandbox.go).
TestTemplate == IF impl = "admin" THEN TemplateDBName ELSE MainDBName

\* createTestDatabase: CREATE DATABASE testDBName TEMPLATE templateDBName
CreateTest(t) ==
    /\ thread[t].pc = "createTest"
    /\ \E err \in BOOLEAN :
        /\ Fault(err)
        /\ IF err \/ ~CanCreate(catalog, sandbox[t].DBName, TestTemplate)
           THEN /\ ReturnErr(t, err)
                /\ UNCHANGED catalog
           ELSE /\ catalog' = CreateDatabase(catalog, sandbox[t].DBName, TestTemplate, t)
                /\ Goto(t, "openTest")
                /\ UNCHANGED sandbox
    /\ UNCHANGED <<cfgVars, fnVars, migVars, impl, pids, now, mu, closeLog>>

\* sql.Open("postgres", replaceDBName(config.MainDBURL, testDBName)),
\* SetMaxOpenConns(config.MaxConnections),
\* SetConnMaxLifetime(config.ConnectionTimeout) and return.
OpenTest(t) ==
    /\ thread[t].pc = "openTest"
    /\ \E err \in BOOLEAN :
        /\ Fault(err)
        /\ IF err
           THEN ReturnErr(t, TRUE)
           ELSE /\ sandbox' = [sandbox EXCEPT
                      ![t].state = "ok",
                      ![t].TestDB = "open",
                      ![t].TemplateDB = deferClose(@),
                      ![t].MaxOpenConns = configs[sandbox[t].Config].MaxConnections,
                      ![t].ConnMaxLifetime = configs[sandbox[t].Config].ConnectionTimeout]
                /\ thread' = [thread EXCEPT ![t] = Idle]
    /\ UNCHANGED <<cfgVars, fnVars, migVars, impl, pids, now, catalog, mu, closeLog>>

New(t) ==
    \/ NewCall(t)
    \/ EnsureMigrated(t)
    \/ OpenAdmin(t)
    \/ CreateTemplate(t)
    \/ CheckCatalog(t)
    \/ OpenMain(t)
    \/ CheckExists(t)
    \/ CurrentDatabase(t)
    \/ CreateTemplateMain(t)
    \/ GenerateName(t)
    \/ CreateTest(t)
    \/ OpenTest(t)

(***************************************************************************)
(* Sandbox.Close, called by thread t on sandbox s. The steps between       *)
(* s.mu.Lock() and the deferred s.mu.Unlock() are Close's own and those of *)
(* dropTestDatabase.                                                       *)
(***************************************************************************)
\* Calls of Close on s that have been made so far.
CloseCalls(s) ==
    Len(closeLog[s]) + Cardinality({t \in Threads : thread[t].target = s})

CloseCall(t, s) ==
    /\ thread[t].pc = "ready"
    /\ sandbox[s].state = "ok"
    /\ CloseCalls(s) < MaxCloses
    /\ thread' = [thread EXCEPT ![t].pc = "lock", ![t].target = s]
    /\ UNCHANGED <<cfgVars, fnVars, migVars, impl, pids, now, faults, catalog, sandbox, mu, closeLog>>

\* s.mu.Lock()
Lock(t) ==
    /\ thread[t].pc = "lock"
    /\ mu[thread[t].target] = 0
    /\ mu' = [mu EXCEPT ![thread[t].target] = t]
    /\ thread' = [thread EXCEPT ![t].pc = "closeTest"]
    /\ UNCHANGED <<cfgVars, fnVars, migVars, impl, pids, now, faults, catalog, sandbox, closeLog>>

\* A Close of a handle that leaves the handle as it was.
leaveDB(db) == db

\* sql.DB.Close: the handle is closed afterwards in every case; closing a
\* closed handle returns nil.
closeDB(db) == IF db = "nil" THEN "nil" ELSE "closed"

\* s.TestDB.Close()
CloseTestDB(t) ==
    LET s == thread[t].target IN
    /\ thread[t].pc = "closeTest"
    /\ \E err \in BOOLEAN :
        /\ err => sandbox[s].TestDB = "open"
        /\ Fault(err)
        /\ thread' = [thread EXCEPT
              ![t].pc = IF sandbox[s].DBName # NoName THEN "terminate" ELSE "closeAdmin",
              ![t].steps = Step(t, err),
              ![t].errors = IF err
                            THEN Append(@, "failed to close test DB connection")
                            ELSE @]
    /\ sandbox' = [sandbox EXCEPT ![s].TestDB = closeDB(@)]
    /\ UNCHANGED <<cfgVars, fnVars, migVars, impl, pids, now, catalog, mu, closeLog>>

\* A dropTestDatabase that returns when the sessions could not be terminated.
returnOnTerminateError(err) == IF err THEN "closeAdmin" ELSE "drop"

\* dropTestDatabase: the error of the termination query is logged and the
\* function goes on to the DROP.
afterTerminate(err) == "drop"

\* A dropTestDatabase that returns the error of the termination query.
terminateErrorReturned(errors, err) ==
    IF err THEN Append(errors, "failed to terminate connections") ELSE errors

\* dropTestDatabase: log.Printf("Warning: failed to terminate connections ...")
terminateError(errors, err) == errors

\* dropTestDatabase: SELECT pg_terminate_backend(pid) ...; an error is logged only.
\* On a closed handle the statement fails without reaching the cluster.
TerminateBackends(t) ==
    LET s == thread[t].target IN
    /\ thread[t].pc = "terminate"
    /\ IF sandbox[s].TemplateDB = "open"
       THEN \E err \in BOOLEAN :
            /\ Fault(err)
            /\ sandbox' = [sandbox EXCEPT ![s].stmtFailed = @ \/ err]
            /\ thread' = [thread EXCEPT
                  ![t].pc = afterTerminate(err),
                  ![t].steps = Step(t, err),
                  ![t].errors = terminateError(@, err)]
       ELSE /\ UNCHANGED <<faults, sandbox>>
            /\ thread' = [thread EXCEPT
                  ![t].pc = afterTerminate(TRUE),
                  ![t].steps = Step(t, TRUE),
                  ![t].errors = terminateError(@, TRUE)]
    /\ UNCHANGED <<cfgVars, fnVars, migVars, impl, pids, now, catalog, mu, closeLog>>

\* A Close that only logs the error of dropTestDatabase.
dropErrorLogged(errors, err) == errors

\* Close: errors = append(errors, "failed to drop test database: ...")
dropError(errors, err) ==
    IF err THEN Append(errors, "failed to drop test database") ELSE errors

\* dropTestDatabase: DROP DATABASE IF EXISTS testDBName
DropTestDB(t) ==
    LET s == thread[t].target IN
    /\ thread[t].pc = "drop"
    /\ IF sandbox[s].TemplateDB = "open"
       THEN \E err \in BOOLEAN :
            /\ Fault(err)
            /\ catalog' = IF err THEN catalog
                          ELSE DropDatabase(catalog, sandbox[s].DBName)
            /\ sandbox' = [sandbox EXCEPT ![s].stmtFailed = @ \/ err]
            /\ thread' = [thread EXCEPT
                  ![t].pc = "closeAdmin",
                  ![t].steps = Step(t, err),
                  ![t].errors = dropError(@, err)]
       ELSE /\ thread' = [thread EXCEPT
                  ![t].pc = "closeAdmin",
                  ![t].steps = Step(t, TRUE),
                  ![t].errors = dropError(@, TRUE)]
            /\ UNCHANGED <<faults, catalog, sandbox>>
    /\ UNCHANGED <<cfgVars, fnVars, migVars, impl, pids, now, mu, closeLog>>

\* A Close that returns with the mutex held.
keepLocked(m, s) == m

\* defer s.mu.Unlock()
Unlock(m, s) == [m EXCEPT ![s] = 0]

\* A Close that clears s.DBName when it is done.
CloseForgettingName(t) ==
    LET s == thread[t].target IN
    /\ thread[t].pc = "closeAdmin"
    /\ \E err \in BOOLEAN :
        /\ err => sandbox[s].TemplateDB = "open"
        /\ Fault(err)
        /\ closeLog' = [closeLog EXCEPT ![s] =
              Append(@, IF err
                        THEN Append(thread[t].errors,
                                    "failed to close template DB connection")
                        ELSE thread[t].errors)]
        /\ sandbox' = [sandbox EXCEPT ![s].TemplateDB = closeDB(@),
                                      ![s].closeSteps = Step(t, err),
                                      ![s].DBName = NoName]
    /\ mu' = Unlock(mu, s)
    /\ thread' = [thread EXCEPT ![t] = Idle]
    /\ UNCHANGED <<cfgVars, fnVars, migVars, impl, pids, now, catalog>>

\* s.TemplateDB.Close(), the result, and the deferred s.mu.Unlock().
CloseTemplateDB(t) ==
    LET s == thread[t].target IN
    /\ thread[t].pc = "closeAdmin"
    /\ \E err \in BOOLEAN :
        /\ err => sandbox[s].TemplateDB = "open"
        /\ Fault(err)
        /\ closeLog' = [closeLog EXCEPT ![s] =
              Append(@, IF err
                        THEN Append(thread[t].errors,
                                    "failed to close template DB connection")
                        ELSE thread[t].errors)]
        /\ sandbox' = [sandbox EXCEPT ![s].TemplateDB = closeDB(@),
                                      ![s].closeSteps = Step(t, err)]
    /\ mu' = Unlock(mu, s)
    /\ thread' = [thread EXCEPT ![t] = Idle]
    /\ UNCHANGED <<cfgVars, fnVars, migVars, impl, pids, now, catalog>>

Close(t) ==
    \/ \E s \in Threads : CloseCall(t, s)
    \/ Lock(t)
    \/ CloseTestDB(t)
    \/ TerminateBackends(t)
    \/ DropTestDB(t)
    \/ CloseTemplateDB(t)

(***************************************************************************)
(* The implementations of MigrationChecker (migration_integration.go),     *)
(* called by New where EnsureMigrated stands for an implementation of      *)
(* which nothing is known.                                                 *)
(***************************************************************************)
\* A New that goes on whatever EnsureMigrated returned.
ProceedAnyway(t, err, fault) ==
    /\ Goto(t, IF impl = "admin" THEN "openAdmin" ELSE "openMain")
    /\ UNCHANGED sandbox

\* New: if err := migrationChecker.EnsureMigrated(...); err != nil { return ... }
Migrated(t, err, fault) ==
    IF err # NoErr
    THEN ReturnErrText(t, fault, err \cup {"failed to ensure main DB is migrated"})
    ELSE /\ Goto(t, IF impl = "admin" THEN "openAdmin" ELSE "openMain")
         /\ UNCHANGED sandbox

\* A checker for which a failed query or a missing table is an error.
strictEnsureMigrated(openErr, pingErr, queryErr, tableExists) ==
    IF openErr THEN {"failed to connect to database"}
    ELSE IF pingErr THEN {"failed to ping database"}
    ELSE IF queryErr \/ ~tableExists THEN {"no migration table found"}
    ELSE NoErr

\* DefaultMigrationChecker.EnsureMigrated: a failed query and a missing
\* table are logged.
defaultEnsureMigrated(openErr, pingErr, queryErr, tableExists) ==
    IF openErr THEN {"failed to connect to database"}
    ELSE IF pingErr THEN {"failed to ping database"}
    ELSE NoErr

DefaultEnsureMigrated(t) ==
    /\ thread[t].pc = "migrate"
    /\ checker.kind = "default"
    /\ \E openErr, pingErr, queryErr \in BOOLEAN :
        /\ ~(openErr /\ pingErr) /\ ~(openErr /\ queryErr) /\ ~(pingErr /\ queryErr)
        /\ Fault(openErr \/ pingErr \/ queryErr)
        /\ Migrated(t, defaultEnsureMigrated(openErr, pingErr, queryErr,
                                             checker.tracked),
                    openErr \/ pingErr)
    /\ UNCHANGED <<cfgVars, fnVars, migVars, impl, pids, now, catalog, mu, closeLog>>

\* The migrations not applied yet, in their order (the migration tool keeps
\* the versions it has applied).
Pending ==
    SelectSeq([v \in 1 .. MaxSchema |-> v],
              LAMBDA v : \A i \in DOMAIN applied : applied[i] # v)

\* m.Up() / "goose up": apply what is pending.
Up(cat) ==
    [cat EXCEPT ![MainDBName].tables = @ \cup {Pending[i] : i \in DOMAIN Pending}]

\* A check that takes migrate.ErrNoChange for a failure.
anyUpError(err) == err # "nil"

\* GolangMigrateChecker: err != nil && err != migrate.ErrNoChange
upFailed(err) == err # "nil" /\ err # "ErrNoChange"

\* A checker that does not look for the migrations directory.
statSkipped(dirExists) == FALSE

\* _, err := os.Stat(g.MigrationsPath); os.IsNotExist(err)
notExist(dirExists) == ~dirExists

\* GolangMigrateChecker.EnsureMigrated: the directory, migrate.New, m.Up().
GolangEnsureMigrated(t) ==
    /\ thread[t].pc = "migrate"
    /\ checker.kind = "golang"
    /\ IF notExist(checker.dirExists)
       THEN /\ Migrated(t, {"migrations directory not found"}, FALSE)
            /\ UNCHANGED <<faults, catalog, applied>>
       ELSE \E newErr, fail \in BOOLEAN :
            LET upErr == IF fail THEN "error"
                         ELSE IF Pending = <<>> THEN "ErrNoChange" ELSE "nil"
            IN  /\ ~(newErr /\ fail)
                /\ Fault(newErr \/ fail)
                /\ applied' = IF newErr \/ fail THEN applied ELSE applied \o Pending
                /\ catalog' = IF newErr \/ fail THEN catalog ELSE Up(catalog)
                /\ Migrated(t, IF newErr THEN {"failed to create migrate instance"}
                               ELSE IF upFailed(upErr)
                               THEN {"failed to run migrations"} ELSE NoErr,
                            newErr \/ fail)
    /\ UNCHANGED <<cfgVars, fnVars, checker, commands, impl, pids, now, mu, closeLog>>

\* A checker that drops the result of the command.
runErrorIgnored(exitErr) == NoErr

\* output, err := cmd.CombinedOutput(); the error carries the output.
runError(exitErr) ==
    IF exitErr THEN {"failed to run migrations", "output"} ELSE NoErr

\* exec.Command(g.BinaryPath, "-dir", g.MigrationsPath, "postgres", dbURL, "up")
GooseCommand(dbURL) ==
    <<"goose", "-dir", "migrations", "postgres", dbURL, "up">>

\* GooseMigrateChecker.EnsureMigrated: exec.LookPath, the directory, the
\* command "goose -dir <path> postgres <dbURL> up".
GooseEnsureMigrated(t) ==
    /\ thread[t].pc = "migrate"
    /\ checker.kind = "goose"
    /\ IF ~checker.binaryFound
       THEN /\ Migrated(t, {"goose binary not found in PATH"}, FALSE)
            /\ UNCHANGED <<faults, catalog, applied, commands>>
       ELSE IF ~checker.dirExists
       THEN /\ Migrated(t, {"migrations directory not found"}, FALSE)
            /\ UNCHANGED <<faults, catalog, applied, commands>>
       ELSE \E fail \in BOOLEAN :
            /\ Fault(fail)
            /\ commands' = Append(commands, GooseCommand(Argument(t)))
            /\ applied' = IF fail THEN applied ELSE applied \o Pending
            /\ catalog' = IF fail THEN catalog ELSE Up(catalog)
            /\ Migrated(t, runError(fail), fail)
    /\ UNCHANGED <<cfgVars, fnVars, checker, impl, pids, now, mu, closeLog>>

\* CustomMigrationChecker.EnsureMigrated: return c.CheckFunc(dbURL). The call
\* of a nil function value panics.
CustomEnsureMigrated(t) ==
    /\ thread[t].pc = "migrate"
    /\ checker.kind = "custom"
    /\ IF checker.CheckFunc = "nil"
       THEN /\ Goto(t, "panic")
            /\ UNCHANGED <<faults, sandbox>>
       ELSE \E err \in BOOLEAN :
            /\ Fault(err)
            /\ Migrated(t, IF err THEN {"check failed"} ELSE NoErr, err)
    /\ UNCHANGED <<cfgVars, fnVars, migVars, impl, pids, now, catalog, mu, closeLog>>

MigrationChecker(t) ==
    \/ DefaultEnsureMigrated(t)
    \/ GolangEnsureMigrated(t)
    \/ GooseEnsureMigrated(t)
    \/ CustomEnsureMigrated(t)

(***************************************************************************)
(* Specifications. Spec: creation and teardown. SpecNew: creation while    *)
(* migrations are applied to the main database.                            *)
(***************************************************************************)
Next ==
    \/ \E s \in Threads : InsertRow(s)
    \/ \E t \in Threads : New(t)
    \/ \E t \in Threads : Close(t)

Spec == Init /\ [][Next]_vars

NextNew ==
    \/ RunMigration
    \/ \E t \in Threads : New(t)

SpecNew == Init /\ [][NextNew]_vars

\* SpecTemplate: creation and teardown by the goroutines of one process, of
\* which one statement or connection may fail, while migrations are applied
\* to the main database between the calls.
InitTemplate ==
    /\ impl \in {"admin", "main"}
    /\ pids = [t \in Threads |-> 1]
    /\ now = 0
    /\ faults = MaxFaults - 1
    /\ catalog = [n \in {MainDBName} |->
                    [tables |-> {}, rows |-> {}, from |-> NoName, by |-> 0]]
    /\ thread = [t \in Threads |-> Idle]
    /\ sandbox = [t \in Threads |-> NoSandbox]
    /\ mu = [t \in Threads |-> 0]
    /\ closeLog = [t \in Threads |-> <<>>]
    /\ connStr = <<>>
    /\ newDBName = <<>>
    /\ result = NoResult
    /\ names = <<>>
    /\ checker = AnyChecker
    /\ applied = <<>>
    /\ commands = <<>>
    /\ configs = [c \in Threads |-> DefaultConfig]
    /\ sources = {SourceUrl}

\* The schema of the main database changes while no call is running.
MigrateBetweenCalls ==
    /\ \A t \in Threads : thread[t].pc = "ready"
    /\ RunMigration

NextTemplate ==
    \/ MigrateBetweenCalls
    \/ \E t \in Threads : New(t) \/ Close(t)

SpecTemplate == InitTemplate /\ [][NextTemplate]_vars

\* SpecClose: creation and teardown under the scheduling Close relies on.
\* The names are not at issue here: each call has its own process and the
\* clock stands on its last tick.
InitClose ==
    /\ impl \in {"admin", "main"}
    /\ pids = [t \in Threads |-> t]
    /\ now = MaxClock
    /\ faults = 0
    /\ catalog = [n \in {MainDBName} |->
                    [tables |-> {}, rows |-> {}, from |-> NoName, by |-> 0]]
    /\ thread = [t \in Threads |-> Idle]
    /\ sandbox = [t \in Threads |-> NoSandbox]
    /\ mu = [t \in Threads |-> 0]
    /\ closeLog = [t \in Threads |-> <<>>]
    /\ connStr = <<>>
    /\ newDBName = <<>>
    /\ result = NoResult
    /\ names = <<>>
    /\ checker = AnyChecker
    /\ applied = <<>>
    /\ commands = <<>>
    /\ configs = [c \in Threads |-> DefaultConfig]
    /\ sources = {SourceUrl}

NextClose == \E t \in Threads : New(t) \/ Close(t)

\* A goroutine that can take a step of the teardown takes it (the statements
\* return); a goroutine blocked in s.mu.Lock() gets the mutex when it is free
\* again and again (sync.Mutex hands the mutex to a starving waiter).
CloseFairness ==
    \A t \in Threads :
        /\ WF_vars(CloseTestDB(t) \/ TerminateBackends(t) \/ DropTestDB(t)
                     \/ CloseTemplateDB(t))
        /\ SF_vars(Lock(t))

SpecClose == InitClose /\ [][NextClose]_vars /\ CloseFairness

\* SpecMigrate: creation with each of the migration checkers.
InitMigrate ==
    /\ impl \in {"admin", "main"}
    /\ pids = [t \in Threads |-> 1]
    /\ now = 0
    /\ faults = 0
    /\ catalog = [n \in {MainDBName} |->
                    [tables |-> {}, rows |-> {}, from |-> NoName, by |-> 0]]
    /\ thread = [t \in Threads |-> Idle]
    /\ sandbox = [t \in Threads |-> NoSandbox]
    /\ mu = [t \in Threads |-> 0]
    /\ closeLog = [t \in Threads |-> <<>>]
    /\ connStr = <<>>
    /\ newDBName = <<>>
    /\ result = NoResult
    /\ names = <<>>
    /\ checker \in Checkers
    /\ applied = <<>>
    /\ commands = <<>>
    /\ configs = [c \in Threads |-> DefaultConfig]
    /\ sources = {SourceUrl}

NextMigrate ==
    \/ \E t \in Threads : New(t)
    \/ \E t \in Threads : MigrationChecker(t)

SpecMigrate == InitMigrate /\ [][NextMigrate]_vars

\* SpecConfig: creation by callers that hold a Config value of their own and
\* both descriptors of the source.
InitConfig ==
    /\ impl \in {"admin", "main"}
    /\ pids \in {[t \in Threads |-> 1], [t \in Threads |-> t]}
    /\ now = 0
    /\ faults = 0
    /\ catalog = [n \in {MainDBName} |->
                    [tables |-> {}, rows |-> {}, from |-> NoName, by |-> 0]]
    /\ thread = [t \in Threads |-> Idle]
    /\ sandbox = [t \in Threads |-> NoSandbox]
    /\ mu = [t \in Threads |-> 0]
    /\ closeLog = [t \in Threads |-> <<>>]
    /\ connStr = <<>>
    /\ newDBName = <<>>
    /\ result = NoResult
    /\ names = <<>>
    /\ checker = AnyChecker
    /\ applied = <<>>
    /\ commands = <<>>
    /\ \E given \in CallerConfigs :
          configs = [c \in {0} \cup Threads |-> IF c = 0 THEN given ELSE DefaultConfig]
    /\ sources = {SourceUrl, SourceUrlQuery, SourceDsn}

NextConfig == \E t \in Threads : New(t)

SpecConfig == InitConfig /\ [][NextConfig]_vars

(***************************************************************************)
(* SpecFn: the string functions and the name generator called on their     *)
(* own. A descriptor and a name are chosen; replaceDBName is applied, then *)
(* extractDBName to its result; one process calls generateUniqueDBName     *)
(* MaxNames times in sequence.                                             *)
(***************************************************************************)
InitFn ==
    /\ impl = "admin"
    /\ pids = [t \in Threads |-> 1]
    /\ now = 0
    /\ faults = 0
    /\ catalog = [n \in {MainDBName} |->
                    [tables |-> {}, rows |-> {}, from |-> NoName, by |-> 0]]
    /\ thread = [t \in Threads |-> Idle]
    /\ sandbox = [t \in Threads |-> NoSandbox]
    /\ mu = [t \in Threads |-> 0]
    /\ closeLog = [t \in Threads |-> <<>>]
    /\ connStr \in Descriptors
    /\ newDBName \in NewNames
    /\ result = NoResult
    /\ names = <<>>
    /\ checker = AnyChecker
    /\ applied = <<>>
    /\ commands = <<>>
    /\ configs = [c \in Threads |-> DefaultConfig]
    /\ sources = {SourceUrl}

ReplaceCall ==
    /\ ~result.replaced
    /\ result' = [result EXCEPT !.replaced = TRUE,
                                !.out = replaceDBName(connStr, newDBName)]
    /\ UNCHANGED <<cfgVars, migVars, impl, pids, now, faults, catalog, thread, sandbox, mu,
                   closeLog, connStr, newDBName, names>>

ExtractCall ==
    /\ result.replaced
    /\ ~result.extracted
    /\ result' = [result EXCEPT !.extracted = TRUE,
                                !.name = extractDBName(result.out)]
    /\ UNCHANGED <<cfgVars, migVars, impl, pids, now, faults, catalog, thread, sandbox, mu,
                   closeLog, connStr, newDBName, names>>

\* sourceDBName := extractDBName(config.MainDBURL)
ExtractSourceCall ==
    /\ ~result.parsed
    /\ result' = [result EXCEPT !.parsed = TRUE,
                                !.dbname = extractDBName(connStr)]
    /\ UNCHANGED <<cfgVars, migVars, impl, pids, now, faults, catalog, thread, sandbox, mu,
                   closeLog, connStr, newDBName, names>>

\* replaceDBName on its own result, with a second name.
ReplaceAgainCall ==
    /\ result.replaced
    /\ ~result.again
    /\ \E second \in NewNames :
        result' = [result EXCEPT !.again = TRUE,
                                 !.second = second,
                                 !.out2 = replaceDBName(result.out, second)]
    /\ UNCHANGED <<cfgVars, migVars, impl, pids, now, faults, catalog, thread, sandbox, mu,
                   closeLog, connStr, newDBName, names>>

GenerateCall ==
    /\ Len(names) < MaxNames
    /\ \E timestamp \in now .. MaxClock :
        /\ now' = timestamp
        /\ names' = Append(names,
                       generateUniqueDBName(TestDBPrefix, timestamp, pids[1]))
    /\ UNCHANGED <<cfgVars, migVars, impl, pids, faults, catalog, thread, sandbox, mu,
                   closeLog, connStr, newDBName, result>>

NextFn ==
    \/ ReplaceCall
    \/ ExtractCall
    \/ ExtractSourceCall
    \/ ReplaceAgainCall
    \/ GenerateCall

SpecFn == InitFn /\ [][NextFn]_vars

(***************************************************************************)
(* Notions the properties below are stated with.                           *)
(***************************************************************************)
Range(seq) == {seq[i] : i \in DOMAIN seq}

\* The ephemeral database the call of thread s created is in the cluster.
OwnDB(s) ==
    /\ Exists(catalog, sandbox[s].DBName)
    /\ catalog[sandbox[s].DBName].by = s

\* createTemplateDatabase has returned an error to the call of t.
ProvisionFailed(t) ==
    /\ sandbox[t].state = "err"
    /\ sandbox[t].failedAt \in {"createTemplate", "checkCatalog", "checkExists",
                                "currentDB", "createTemplateMain"}

\* createTemplateDatabase has returned nil to the call of t.
ProvisionSucceeded(t) ==
    \/ thread[t].pc \in {"genName", "createTest", "openTest"}
    \/ sandbox[t].state = "ok"
    \/ sandbox[t].state = "err" /\ sandbox[t].failedAt \in {"createTest", "openTest"}

\* Calls of Close on s that have run dropTestDatabase.
DropCalls(s) ==
    Len(closeLog[s])
    + Cardinality({t \in Threads : thread[t].target = s /\ thread[t].pc = "closeAdmin"})

\* New has returned s and Close has not been called on it.
Live(s) == sandbox[s].state = "ok" /\ CloseCalls(s) = 0

(***************************************************************************)
(* C1. When callers race on createTemplateDatabase for a template that     *)
(* does not exist yet and nothing in the environment fails, every call     *)
(* returns success and the template database exists afterwards.            *)
(* Stated as written; sandbox.go's check-then-create violates it.          *)
(***************************************************************************)
C1_AllCallersProvision ==
    faults = 0 =>
        \A t \in Threads :
            ~sandbox[t].tmplAtCall =>
                /\ ~ProvisionFailed(t)
                /\ ProvisionSucceeded(t) => Exists(catalog, TemplateDBName)

\* C1 on the version that creates first (part_000) alone.
C1_CreateFirstProvision == impl = "admin" => C1_AllCallersProvision

(***************************************************************************)
(* C2. When New returns an error, no connection the call opened is left    *)
(* open and no ephemeral database the call created is left in the cluster. *)
(* Stated as written; both versions violate it.                            *)
(***************************************************************************)
C2_NoLeakOnError ==
    \A t \in Threads :
        sandbox[t].state = "err" =>
            /\ sandbox[t].TemplateDB # "open"
            /\ sandbox[t].TestDB # "open"
            /\ ~OwnDB(t)

(***************************************************************************)
(* C3. After Close has returned on a sandbox a successful New returned,    *)
(* and no statement issued on an open connection failed, the sandbox's     *)
(* ephemeral database is not in the cluster.                               *)
(* Stated as written; sandbox.go hands Close a closed connection.          *)
(***************************************************************************)
C3_ClosedMeansDropped ==
    \A s \in Threads :
        (Len(closeLog[s]) >= 1 /\ ~sandbox[s].stmtFailed) => ~OwnDB(s)

\* C3 on the version that keeps the administrative connection (part_000) alone.
C3_AdminClosedMeansDropped == impl = "admin" => C3_ClosedMeansDropped

(***************************************************************************)
(* C4. The second Close on a sandbox returns what the first returned.      *)
(* Stated as written; the second call fails on the closed connection.      *)
(***************************************************************************)
C4_SecondCloseSameOutcome ==
    \A s \in Threads :
        Len(closeLog[s]) >= 2 => closeLog[s][2] = closeLog[s][1]

(***************************************************************************)
(* C5. Over all Close calls on one sandbox, the teardown statements (the   *)
(* session termination and the DROP DATABASE) are run by at most one call. *)
(* Stated as written; every call runs dropTestDatabase.                    *)
(***************************************************************************)
C5_TeardownAtMostOnce == \A s \in Threads : DropCalls(s) <= 1

(***************************************************************************)
(* C6. A Close that returned nil has dropped the sandbox's ephemeral       *)
(* database: when the database is still in the cluster, every Close that   *)
(* has returned on the sandbox returned an error.                          *)
(***************************************************************************)
C6_NilMeansDropped ==
    \A s \in Threads :
        \A i \in DOMAIN closeLog[s] :
            closeLog[s][i] = <<>> => ~OwnDB(s)

\* A DROP that failed on the open administrative connection: the database is
\* left and Close has returned the drop error.
C6_Witness ==
    \E s \in Threads :
        /\ impl = "admin"
        /\ Len(closeLog[s]) >= 1
        /\ OwnDB(s)
        /\ "failed to drop test database" \in Range(closeLog[s][1])

(***************************************************************************)
(* C7. The database of a sandbox New returned has the tables the main      *)
(* database had when New was called (checked while the main database has   *)
(* not changed since that call), whatever happened before the call.        *)
(* Stated as written; a template that exists already is never refreshed.   *)
(***************************************************************************)
C7_FreshCopyOfMain ==
    \A t \in Threads :
        (/\ sandbox[t].state = "ok"
         /\ OwnDB(t)
         /\ sandbox[t].tablesAtCall = catalog[MainDBName].tables)
        => catalog[sandbox[t].DBName].tables = catalog[MainDBName].tables

(***************************************************************************)
(* C8. After a successful New that found no template: the template exists  *)
(* and is a clone of the main database, the ephemeral database exists and  *)
(* is a clone of the template, with the tables of the main database.       *)
(* Stated as written; sandbox.go clones the ephemeral database from        *)
(* "main_db", not from the template.                                       *)
(***************************************************************************)
C8_ClonedThroughTemplate ==
    \A t \in Threads :
        (sandbox[t].state = "ok" /\ ~sandbox[t].tmplAtCall) =>
            /\ Exists(catalog, TemplateDBName)
            /\ catalog[TemplateDBName].from = MainDBName
            /\ OwnDB(t)
            /\ catalog[sandbox[t].DBName].from = TemplateDBName
            /\ sandbox[t].tablesAtCall = catalog[MainDBName].tables
               => catalog[sandbox[t].DBName].tables = catalog[MainDBName].tables

\* C8 on the version that clones from config.TemplateDBName (part_000) alone.
C8_AdminClonedThroughTemplate == impl = "admin" => C8_ClonedThroughTemplate

(***************************************************************************)
(* C9. Two sandboxes New has returned, neither closed yet, have different  *)
(* names and (part_000) both connections open; a step of Close on one      *)
(* sandbox changes nothing of any other sandbox: not its connections, not  *)
(* its name, not the existence or the content of its database.             *)
(***************************************************************************)
DistinctLiveNames ==
    \A s, o \in Threads :
        (s # o /\ Live(s) /\ Live(o)) => sandbox[s].DBName # sandbox[o].DBName

LiveConnectionsOpen ==
    \A o \in Threads :
        (impl = "admin" /\ Live(o)) =>
            sandbox[o].TemplateDB = "open" /\ sandbox[o].TestDB = "open"

CloseStepLeavesOthers ==
    \A t \in Threads :
        (thread[t].target # 0 /\ thread'[t] # thread[t]) =>
            \A o \in Threads \ {thread[t].target} :
                /\ sandbox'[o] = sandbox[o]
                /\ OwnDB(o) =>
                      /\ OwnDB(o)'
                      /\ catalog'[sandbox[o].DBName] = catalog[sandbox[o].DBName]

C10_EveryConcurrentNewSucceeds ==
    (impl = "admin" /\ faults = 0) =>
        /\ \A t \in Threads : sandbox[t].state # "err"
        /\ \A s, o \in Threads :
              (s # o /\ sandbox[s].state = "ok" /\ sandbox[o].state = "ok")
              => sandbox[s].DBName # sandbox[o].DBName

(***************************************************************************)
(* C11. The names generateUniqueDBName returns to N calls made one after   *)
(* the other in one process, with one prefix, are pairwise different.      *)
(* Stated as written; the name is built from the clock reading and the     *)
(* process id only, and two readings of the clock may be equal.            *)
(***************************************************************************)
C11_SequentialNamesDistinct ==
    \A i, j \in DOMAIN names : i # j => names[i] # names[j]

(***************************************************************************)
(* C12. extractDBName(replaceDBName(d, n)) = n for every descriptor d of   *)
(* the keyword/value form or of the URL form and every name n.             *)
(* Stated as written; a URL with a path keeps the path, and a keyword/     *)
(* value descriptor without dbname gets "?dbname=n" glued to its end.      *)
(***************************************************************************)
C12_ExtractAfterReplace ==
    result.extracted => result.name = newDBName

\* The database a descriptor names is `name`: a dbname=name pair of the
\* keyword/value form; the path or the dbname pair of the query of a URL.
NamesDatabase(conn, name) ==
    IF Len(conn) > 0 /\ conn[1] \in Schemes
    THEN \/ TrimPrefix(UrlPath(conn), <<"/">>) = name
         \/ QueryGet(UrlRawQuery(conn), "dbname") = name
    ELSE \E i \in DOMAIN Split(conn, " ") : Split(conn, " ")[i] = DbnameEq \o name

(***************************************************************************)
(* C13. The descriptor replaceDBName(d, n) returns names n as its          *)
(* database; n is never absent from it.                                    *)
(* Stated as written; a URL whose query holds dbname= is returned as it    *)
(* was given.                                                              *)
(***************************************************************************)
C13_ReplacedNamesDatabase ==
    result.replaced => NamesDatabase(result.out, newDBName)

\* The parameters of a descriptor other than dbname, in their order: the
\* pairs between spaces, the pairs of the query of a URL.
OtherParams(conn) ==
    LET notDbname(part) == ~HasPrefix(part, DbnameEq)
    IN  IF Len(conn) > 0 /\ conn[1] \in Schemes
        THEN IF UrlRawQuery(conn) = <<>> THEN <<>>
             ELSE SelectSeq(Split(UrlRawQuery(conn), "&"), notDbname)
        ELSE SelectSeq(Split(conn, " "), notDbname)

(***************************************************************************)
(* C14. replaceDBName(d, n) keeps the parameters of d other than dbname:   *)
(* the same pairs with the same values in the same order.                  *)
(* Stated as written; without dbname in a keyword/value descriptor the     *)
(* value of its last pair gets "?dbname=n" appended.                       *)
(***************************************************************************)
C14_ReplaceKeepsOtherParams ==
    result.replaced => OtherParams(result.out) = OtherParams(connStr)

(***************************************************************************)
(* C15. When the migration checker returns an error, New returns an error  *)
(* without having opened a connection or created a database; a             *)
(* GolangMigrateChecker whose migrations directory is missing makes every  *)
(* New fail with "migrations directory not found".                         *)
(***************************************************************************)
C15_CheckerErrorStopsNew ==
    \A t \in Threads :
        /\ sandbox[t].failedAt = "migrate" =>
              /\ sandbox[t].state = "err"
              /\ sandbox[t].TemplateDB = "nil"
              /\ sandbox[t].TestDB = "nil"
              /\ sandbox[t].DBName = NoName
              /\ \A n \in DOMAIN catalog : catalog[n].by # t
        /\ (/\ checker.kind = "golang"
            /\ ~checker.dirExists
            /\ sandbox[t].state # "none"
            /\ thread[t].pc # "migrate") =>
              /\ sandbox[t].failedAt = "migrate"
              /\ "migrations directory not found" \in sandbox[t].error

\* Both calls have failed on the missing directory; the cluster holds the
\* main database only.
C15_Witness ==
    /\ checker.kind = "golang"
    /\ ~checker.dirExists
    /\ DOMAIN catalog = {MainDBName}
    /\ \A t \in Threads :
          /\ sandbox[t].state = "err"
          /\ sandbox[t].failedAt = "migrate"
          /\ "migrations directory not found" \in sandbox[t].error
          /\ "failed to ensure main DB is migrated" \in sandbox[t].error

(***************************************************************************)
(* C16. DefaultMigrationChecker.EnsureMigrated returns an error only when  *)
(* the connection cannot be opened or pinged: a main database without the  *)
(* migration-tracking table, or a failure of the query for it, does not    *)
(* make New fail.                                                          *)
(***************************************************************************)
C16_DefaultCheckerNeverBlocks ==
    checker.kind = "default" =>
        \A t \in Threads :
            sandbox[t].failedAt = "migrate" =>
                \/ "failed to connect to database" \in sandbox[t].error
                \/ "failed to ping database" \in sandbox[t].error

\* New has returned a sandbox although the main database has no
\* migration-tracking table.
C16_Witness ==
    /\ checker.kind = "default"
    /\ ~checker.tracked
    /\ \E t \in Threads : sandbox[t].state = "ok" /\ OwnDB(t)

C19_NoPanic == \A t \in Threads : thread[t].pc # "panic"

(***************************************************************************)
(* C18. The Config of a sandbox New has returned does not change: no later *)
(* step changes a field of it, a later New that is given the same Config   *)
(* value and another descriptor included.                                  *)
(* Stated as written; New writes MainDBURL into the Config it is given and *)
(* the sandbox keeps a pointer to that Config.                             *)
(***************************************************************************)
C18_ConfigImmutable ==
    [][\A s \in Threads :
          sandbox[s].state = "ok" =>
              configs'[sandbox[s].Config] = configs[sandbox[s].Config]]_vars

(***************************************************************************)
(* C20. DBName is set once, by the New that builds the sandbox: a step     *)
(* changes it only for the call that has no name yet, and never for a      *)
(* sandbox New has returned; the cluster never holds two ephemeral         *)
(* databases created for one sandbox.                                      *)
(***************************************************************************)
EphemeralDBs(s) ==
    {n \in DOMAIN catalog : n[1] = TestDBPrefix /\ catalog[n].by = s}

DBNameSetOnce ==
    \A s \in Threads :
        /\ sandbox'[s].DBName # sandbox[s].DBName =>
              /\ sandbox[s].DBName = NoName
              /\ thread[s].pc = "genName"
        /\ sandbox[s].state = "ok" =>
              /\ sandbox'[s].state = "ok"
              /\ sandbox'[s].DBName # NoName

C20_OneDatabaseOneName ==
    [][DBNameSetOnce /\ \A s \in Threads : Cardinality(EphemeralDBs(s)')  <= 1]_vars

\* A sandbox that has its name after two calls of Close on it, while the
\* other thread has built a sandbox of its own.
C20_Witness ==
    \E s, o \in Threads :
        /\ s # o
        /\ Len(closeLog[s]) = 2
        /\ sandbox[s].state = "ok"
        /\ sandbox[s].DBName # NoName
        /\ sandbox[o].state = "ok"
        /\ sandbox[o].DBName # NoName

(***************************************************************************)
(* The statements of a call. thread[t].steps is the log of the call that   *)
(* is running and sandbox[s].closeSteps the log of the last Close that     *)
(* returned. NewLog(t) is the log of the New that thread t is running, the *)
(* step of its position included: the call executes it next.               *)
(***************************************************************************)
ProvisionStatements ==
    {"CREATE DATABASE template", "SELECT EXISTS pg_database", "SELECT current_database"}

NewLog(t) ==
    IF sandbox[t].state = "running"
    THEN IF thread[t].pc = "panic" THEN thread[t].steps ELSE Done(t)
    ELSE <<>>

\* C21: template provisioning issues CREATE DATABASE <template> as its first
\* statement, no catalog check before it; the catalog is queried only right
\* after a CREATE that failed with a text that is not a duplicate signature.
C21_CreateBeforeCatalogQuery ==
    \A t \in Threads :
        /\ LET log == NewLog(t) IN \A i \in DOMAIN log :
              /\ (log[i].stmt \in ProvisionStatements
                  /\ \A j \in 1 .. i - 1 : log[j].stmt \notin ProvisionStatements)
                 => log[i].stmt = "CREATE DATABASE template"
              /\ log[i].stmt = "SELECT EXISTS pg_database"
                 => i > 1 /\ log[i - 1].stmt = "CREATE DATABASE template"
        /\ thread[t].pc = "checkCatalog"
           => thread[t].err # NoErr /\ ~isDuplicateText(thread[t].err)

\* C22: createTemplateDatabase (part_000) returns an error exactly when the
\* CREATE failed, its text matches no duplicate signature and the catalog
\* query does not confirm the template (absent, or the query failed); the
\* error wraps the error of the CREATE and not that of the catalog query.
C22_TemplateErrorWrapsCreateError ==
    [][\A t \in Threads :
          (impl = "admin" /\ thread[t].pc \in {"createTemplate", "checkCatalog"}
           /\ thread'[t] # thread[t])
          => LET createFailed == IF thread[t].pc = "checkCatalog"
                                 THEN thread[t].err
                                 ELSE thread'[t].err
                 queried == thread[t].pc = "checkCatalog" \/ thread'[t].pc = "checkCatalog"
                 confirmed == /\ faults' = faults
                              /\ Exists(catalog, TemplateDBName)
             IN  /\ queried <=> (createFailed # NoErr /\ ~isDuplicateText(createFailed))
                 /\ sandbox'[t].state = "err"
                    <=> (thread[t].pc = "checkCatalog" /\ ~confirmed)
                 /\ sandbox'[t].state = "err"
                    => sandbox'[t].error = createFailed \cup {"failed to create template database"}
      ]_vars

\* A createTemplateDatabase returned the error of a CREATE that failed for a
\* reason other than a duplicate, after a catalog query that failed itself.
C22_Witness ==
    \E t \in Threads :
        /\ impl = "admin"
        /\ sandbox[t].state = "err"
        /\ sandbox[t].failedAt = "checkCatalog"
        /\ sandbox[t].error = ErrReworded \cup {"failed to create template database"}
        /\ sandbox[t].faulted
        /\ Exists(catalog, TemplateDBName)

\* C23: once the template database exists, no step of New, of Close or of
\* template provisioning drops, recreates or modifies it, whatever happens
\* to the schema of the source database afterwards.
C23_TemplateNeverModified ==
    [][Exists(catalog, TemplateDBName)
       => /\ Exists(catalog', TemplateDBName)
          /\ catalog'[TemplateDBName] = catalog[TemplateDBName]]_vars

\* The source schema changed after the template was made, a later New
\* succeeded and a Close dropped an ephemeral database: the template is there.
C23_Witness ==
    /\ Exists(catalog, TemplateDBName)
    /\ catalog[TemplateDBName].tables # catalog[MainDBName].tables
    /\ \E t \in Threads : sandbox[t].state = "ok" /\ sandbox[t].tablesAtCall # {}
    /\ \E s \in Threads : /\ Len(closeLog[s]) > 0
                          /\ ~Exists(catalog, sandbox[s].DBName)

\* The descriptors the connections of a call are opened with.
OpenedWith(t, stmts) ==
    {NewLog(t)[i].arg : i \in {j \in DOMAIN NewLog(t) : NewLog(t)[j].stmt \in stmts}}

\* C24: the connection on which New issues CREATE DATABASE and Close issues
\* DROP DATABASE is opened with a descriptor that names the maintenance
\* database postgres, for the keyword/value and for the URL form of the
\* source descriptor.
C24_AdminConnectionNamesPostgres ==
    \A t \in Threads :
        \A conn \in OpenedWith(t, {"sql.Open adminConnStr", "sql.Open MainDBURL"}) :
            NamesDatabase(conn, <<"postgres">>)

\* How many times a call executed the statement.
Count(log, stmt) == Cardinality({i \in DOMAIN log : log[i].stmt = stmt})

\* C25: New creates the ephemeral database as a clone of the configured
\* template database with exactly one CREATE DATABASE; if the statement
\* fails New returns the error, with no second attempt and no other name.
C25_OneCloneOfConfiguredTemplate ==
    [][\A t \in Threads :
          /\ Count(NewLog(t), "CREATE DATABASE test") <= 1
          /\ Count(NewLog(t), "generateUniqueDBName") <= 1
          /\ (thread[t].pc = "createTest" /\ thread'[t] # thread[t])
             => \/ /\ thread'[t].pc = "openTest"
                   /\ ~Exists(catalog, sandbox[t].DBName)
                   /\ Exists(catalog', sandbox[t].DBName)
                   /\ catalog'[sandbox[t].DBName].from = configs[sandbox[t].Config].TemplateDBName
                \/ /\ thread'[t].pc = "ready"
                   /\ sandbox'[t].state = "err"
                   /\ sandbox'[t].DBName = sandbox[t].DBName
                   /\ catalog' = catalog
      ]_vars

\* C26: the descriptor New opens the pooled connection with names the
\* generated DBName as its database, for the keyword/value and for the URL
\* form of the source descriptor.
C26_PooledConnectionNamesDBName ==
    \A t \in Threads :
        \A conn \in OpenedWith(t, {"sql.Open testConnStr"}) :
            NamesDatabase(conn, <<ToString(sandbox[t].DBName)>>)

\* The step of New a statement belongs to: migration check, administrative
\* connection, template, name, ephemeral database, pooled connection.
StepOf(stmt) ==
    CASE stmt = "EnsureMigrated" -> 1
      [] stmt \in {"sql.Open adminConnStr", "sql.Open MainDBURL"} -> 2
      [] stmt \in ProvisionStatements -> 3
      [] stmt = "generateUniqueDBName" -> 4
      [] stmt = "CREATE DATABASE test" -> 5
      [] stmt = "sql.Open testConnStr" -> 6
      [] OTHER -> 0

\* C27: within one New the steps run in the order migration check,
\* administrative connection, template, name, ephemeral database, pooled
\* connection; every step before the one being executed succeeded (the
\* CREATE of the template step apart, whose failure that step handles); the
\* checker is invoked once, with the source descriptor New was given.
C27_StepsInOrder ==
    \A t \in Threads :
        LET log == NewLog(t)
        IN  /\ \A i \in DOMAIN log :
                  IF i = 1
                  THEN StepOf(log[i].stmt) = 1
                  ELSE \/ StepOf(log[i].stmt) = StepOf(log[i - 1].stmt) + 1
                       \/ StepOf(log[i].stmt) = 3 /\ StepOf(log[i - 1].stmt) = 3
            /\ Count(log, "EnsureMigrated") <= 1
            /\ \A i \in DOMAIN log :
                  log[i].stmt = "EnsureMigrated" => log[i].arg = sandbox[t].mainDBURL
            /\ \A i \in 1 .. Len(log) - 1 :
                  log[i].failed => log[i].stmt = "CREATE DATABASE template"

\* The statements of a log, in the order they were executed.
Statements(log) == [i \in DOMAIN log |-> log[i].stmt]

\* The steps of Close, in the order of the code.
CloseOrder ==
    <<"TestDB.Close", "pg_terminate_backend", "DROP DATABASE IF EXISTS",
      "TemplateDB.Close">>

\* C28: Close attempts all of its steps in the order close pooled connection,
\* terminate sessions, DROP DATABASE IF EXISTS, close administrative
\* connection: a running Close has executed the steps before its position
\* and a Close that returned has executed all four, whatever failed.
C28_CloseAttemptsEveryStep ==
    /\ \A t \in Threads :
          thread[t].target # 0
          => /\ Len(thread[t].steps) < Len(CloseOrder)
             /\ Statements(thread[t].steps) = SubSeq(CloseOrder, 1, Len(thread[t].steps))
             /\ IF thread[t].pc = "lock"
                THEN thread[t].steps = <<>>
                ELSE Statement(thread[t].pc) = CloseOrder[Len(thread[t].steps) + 1]
    /\ \A s \in Threads :
          Len(closeLog[s]) > 0 => Statements(sandbox[s].closeSteps) = CloseOrder

\* A Close whose first step failed went on to the DROP and to the close of
\* the administrative connection, and returned the error.
C28_Witness ==
    \E s \in Threads :
        /\ Len(closeLog[s]) > 0
        /\ "failed to close test DB connection" \in Range(closeLog[s][Len(closeLog[s])])
        /\ Statements(sandbox[s].closeSteps) = CloseOrder
        /\ ~Exists(catalog, sandbox[s].DBName)

\* What Close appends to its errors when a step fails; nothing for the
\* termination of the other sessions.
CloseMessage(stmt) ==
    CASE stmt = "TestDB.Close" -> <<"failed to close test DB connection">>
      [] stmt = "DROP DATABASE IF EXISTS" -> <<"failed to drop test database">>
      [] stmt = "TemplateDB.Close" -> <<"failed to close template DB connection">>
      [] OTHER -> <<>>

\* The messages of the steps of a log that failed, in the order of the steps.
RECURSIVE FailureMessages(_)
FailureMessages(log) ==
    IF log = <<>>
    THEN <<>>
    ELSE (IF Head(log).failed THEN CloseMessage(Head(log).stmt) ELSE <<>>)
         \o FailureMessages(Tail(log))

\* C29: Close returns an error if and only if closing the pooled connection,
\* dropping the ephemeral database or closing the administrative connection
\* failed, and the error names each of these that failed; a failure of the
\* session-termination query alone leaves the result nil. (The result is the
\* list of messages; nil is the empty list.)
C29_CloseErrorNamesFailedSteps ==
    /\ \A s \in Threads :
          Len(closeLog[s]) > 0
          => closeLog[s][Len(closeLog[s])] = FailureMessages(sandbox[s].closeSteps)
    /\ \A t \in Threads :
          thread[t].target # 0 => thread[t].errors = FailureMessages(thread[t].steps)

\* A Close whose session-termination query failed, and nothing else,
\* returned nil.
C29_Witness ==
    \E s \in Threads :
        /\ Len(closeLog[s]) > 0
        /\ closeLog[s][Len(closeLog[s])] = <<>>
        /\ \E i \in DOMAIN sandbox[s].closeSteps :
              /\ sandbox[s].closeSteps[i].stmt = "pg_terminate_backend"
              /\ sandbox[s].closeSteps[i].failed

\* C30: after Close has returned, whatever failed during the teardown, the
\* pooled connection and the administrative connection of the Sandbox are
\* both closed.
C30_ClosedAfterClose ==
    \A s \in Threads :
        Len(closeLog[s]) > 0
        => sandbox[s].TestDB = "closed" /\ sandbox[s].TemplateDB = "closed"

\* A Close returned the error of closing the administrative connection, and
\* both handles are closed.
C30_Witness ==
    \E s \in Threads :
        /\ Len(closeLog[s]) > 0
        /\ "failed to close template DB connection" \in Range(closeLog[s][1])
        /\ sandbox[s].TestDB = "closed"
        /\ sandbox[s].TemplateDB = "closed"

\* C31: New supplies the defaults for configuration that is absent: with a
\* nil config, or with a zero pool size or lifetime in the config it is
\* given, the pool of the Sandbox has size 10 and lifetime 30s; a value that
\* is set is the one used.
C31_DefaultsForAbsentFields ==
    \A t \in Threads :
        sandbox[t].state = "ok"
        => LET given == configs[sandbox[t].Config]
           IN  /\ sandbox[t].MaxOpenConns =
                     IF given.MaxConnections = 0 THEN 10 ELSE given.MaxConnections
               /\ sandbox[t].ConnMaxLifetime =
                     IF given.ConnectionTimeout = 0 THEN 30 ELSE given.ConnectionTimeout

\* The first non-empty segment of a URL path, "" when there is none.
FirstSegment(path) ==
    LET segments == Split(path, "/")
        filled == {i \in DOMAIN segments : segments[i] # <<>>}
    IN  IF filled = {} THEN <<>>
        ELSE segments[CHOOSE i \in filled : \A j \in filled : i <= j]

\* C32: extractDBName returns the value of the dbname= token of a descriptor
\* of the keyword/value form; for a URL (postgres:// or postgresql://) the
\* first non-empty path segment, else the dbname query parameter; "" when
\* neither form matches.
C32_ExtractedName ==
    result.parsed
    => result.dbname =
          IF Len(connStr) > 0 /\ connStr[1] \in Schemes
          THEN IF FirstSegment(UrlPath(connStr)) # <<>>
               THEN FirstSegment(UrlPath(connStr))
               ELSE QueryGet(UrlRawQuery(connStr), "dbname")
          ELSE LET parts == Split(connStr, " ")
               IN  IF FirstDbnamePart(parts) # 0
                   THEN TrimPrefix(parts[FirstDbnamePart(parts)], DbnameEq)
                   ELSE <<>>

\* C33: GolangMigrateChecker.EnsureMigrated fails with the
\* directory-missing error, before it creates a migrate instance or touches
\* the database, whenever the migrations directory is absent; with the
\* directory there it returns an error exactly when the runner failed, "no
\* change" being a success.
C33_GolangChecker ==
    [][\A t \in Threads :
          (checker.kind = "golang" /\ thread[t].pc = "migrate" /\ thread'[t] # thread[t])
          => IF ~checker.dirExists
             THEN /\ sandbox'[t].state = "err"
                  /\ "migrations directory not found" \in sandbox'[t].error
                  /\ "failed to create migrate instance" \notin sandbox'[t].error
                  /\ catalog' = catalog
                  /\ applied' = applied
                  /\ faults' = faults
             ELSE /\ sandbox'[t].state = "err" <=> faults' # faults
                  /\ (faults' = faults /\ Pending = <<>>)
                     => /\ thread'[t].pc \in {"openAdmin", "openMain"}
                        /\ applied' = applied
                        /\ catalog' = catalog
      ]_vars

\* The first New failed on the missing directory: nothing was migrated and
\* nothing in the environment was reached.
C33_Witness ==
    /\ checker.kind = "golang"
    /\ ~checker.dirExists
    /\ faults = 0
    /\ applied = <<>>
    /\ catalog[MainDBName].tables = {}
    /\ \E t \in Threads :
          /\ sandbox[t].state = "err"
          /\ sandbox[t].failedAt = "migrate"
          /\ sandbox[t].error = {"migrations directory not found",
                                 "failed to ensure main DB is migrated"}


(***************************************************************************)
(* C34. GooseMigrateChecker.EnsureMigrated fails with a binary-not-found   *)
(* error, without running anything, when the executable cannot be          *)
(* resolved; otherwise it invokes the binary once against the migrations   *)
(* directory and the target descriptor, and returns an error carrying the  *)
(* captured output exactly when the binary exits non-zero.                 *)
(***************************************************************************)
GooseStep(t) ==
    checker.kind = "goose" /\ thread[t].pc = "migrate" /\ thread'[t] # thread[t]

GooseBinaryNotFound(t) ==
    /\ sandbox'[t].state = "err"
    /\ "goose binary not found in PATH" \in sandbox'[t].error
    /\ commands' = commands /\ catalog' = catalog /\ applied' = applied

\* The command ran once, on the directory and on the descriptor New was
\* given; the error carries the output exactly when the command failed.
GooseRanOnce(t) ==
    /\ commands' = Append(commands,
                          <<"goose", "-dir", "migrations", "postgres",
                            configs[sandbox[t].Config].MainDBURL, "up">>)
    /\ sandbox'[t].state = "err" <=> faults' # faults
    /\ sandbox'[t].state = "err" =>
           {"failed to run migrations", "output"} \subseteq sandbox'[t].error
    /\ faults' = faults => thread'[t].pc \in {"openAdmin", "openMain"}

\* C34 as stated: the executable resolved, the command is run.
C34_GooseRunsWheneverResolved ==
    [][\A t \in Threads :
          GooseStep(t) => IF ~checker.binaryFound
                          THEN GooseBinaryNotFound(t)
                          ELSE GooseRanOnce(t)
      ]_vars

\* C34, amended: with the executable resolved and the migrations directory
\* absent, EnsureMigrated fails with a migrations-directory-missing error
\* and runs nothing; the command is run once when both are found.
C34_GooseChecker ==
    [][\A t \in Threads :
          GooseStep(t) => IF ~checker.binaryFound
                          THEN GooseBinaryNotFound(t)
                          ELSE IF ~checker.dirExists
                          THEN /\ sandbox'[t].state = "err"
                               /\ "migrations directory not found" \in sandbox'[t].error
                               /\ commands' = commands /\ catalog' = catalog
                               /\ applied' = applied
                          ELSE GooseRanOnce(t)
      ]_vars

\* A New has failed on the output of a goose command that exited non-zero.
C34_Witness ==
    \E t \in Threads :
        /\ checker.kind = "goose"
        /\ checker.binaryFound /\ checker.dirExists
        /\ commands # <<>>
        /\ sandbox[t].state = "err"
        /\ "output" \in sandbox[t].error

(***************************************************************************)
(* C35. Whenever createTemplateDatabase returns success, through any of    *)
(* its branches (CREATE succeeded, a duplicate text was recognised, the    *)
(* catalog confirmed the database), the template database exists in the    *)
(* cluster catalog at that moment.                                         *)
(***************************************************************************)
TemplateSteps ==
    {"createTemplate", "checkCatalog", "checkExists", "currentDB", "createTemplateMain"}

C35_TemplateExistsOnSuccess ==
    [][\A t \in Threads :
          (thread[t].pc \in TemplateSteps /\ thread'[t].pc = "genName")
          => Exists(catalog', TemplateDBName)
      ]_vars

\* createTemplateDatabase has returned success on the catalog's confirmation,
\* its CREATE having failed.
C35_Witness ==
    \E t \in Threads :
        /\ thread[t].pc = "genName"
        /\ thread[t].steps # <<>>
        /\ thread[t].steps[Len(thread[t].steps)].stmt = "SELECT EXISTS pg_database"
        /\ \E i \in DOMAIN thread[t].steps :
               /\ thread[t].steps[i].stmt = "CREATE DATABASE template"
               /\ thread[t].steps[i].failed
        /\ Exists(catalog, TemplateDBName)

(***************************************************************************)
(* C36. Every Sandbox a successful New has returned holds an               *)
(* administrative connection (TemplateDB) and a pooled connection (TestDB) *)
(* that are both open when New returns and stay open until Close is called *)
(* on that Sandbox. Stated as written; sandbox.go closes the connection it *)
(* stores in TemplateDB by a deferred call when New returns.               *)
(***************************************************************************)
C36_ConnectionsOpenUntilClose ==
    \A t \in Threads :
        Live(t) => sandbox[t].TemplateDB = "open" /\ sandbox[t].TestDB = "open"

(***************************************************************************)
(* C37. At every moment no two Sandboxes that New has returned and on      *)
(* which Close has not been called share a DBName, also when two names are *)
(* generated on the same clock tick in the same process: the New whose     *)
(* name is taken by a live Sandbox fails at createTestDatabase, creates    *)
(* nothing and returns no Sandbox.                                         *)
(***************************************************************************)
NameTaken(t) ==
    \E o \in Threads \ {t} : Live(o) /\ sandbox[o].DBName = sandbox[t].DBName

C37_CollidingNewFails ==
    [][/\ \A s, o \in Threads :
             (s # o /\ Live(s)' /\ Live(o)') => sandbox'[s].DBName # sandbox'[o].DBName
       /\ \A t \in Threads :
             (thread[t].pc = "createTest" /\ thread'[t] # thread[t] /\ NameTaken(t))
             => /\ sandbox'[t].state = "err"
                /\ sandbox'[t].failedAt = "createTest"
                /\ catalog' = catalog
      ]_vars

\* Two calls of one process generated the same name: one Sandbox is live on
\* it, the other New has failed at createTestDatabase with nothing failing
\* in the environment.
C37_Witness ==
    \E t, o \in Threads :
        /\ t # o
        /\ impl = "admin"
        /\ pids[t] = pids[o]
        /\ Live(o) /\ OwnDB(o)
        /\ sandbox[t].DBName = sandbox[o].DBName
        /\ sandbox[t].state = "err"
        /\ sandbox[t].failedAt = "createTest"
        /\ ~sandbox[t].faulted

(***************************************************************************)
(* C38. Concurrent Close calls on one Sandbox are mutually exclusive and   *)
(* deadlock-free: no two calls execute teardown steps at the same time,    *)
(* the lock is released on every return path, and every Close call         *)
(* eventually returns.                                                     *)
(***************************************************************************)
TeardownSteps == {"closeTest", "terminate", "drop", "closeAdmin"}

InTeardown(t) == thread[t].target # 0 /\ thread[t].pc \in TeardownSteps

C38_CloseExclusiveAndReturns ==
    /\ [](\A t, u \in Threads :
             (t # u /\ InTeardown(t) /\ InTeardown(u))
             => thread[t].target # thread[u].target)
    /\ [](\A t \in Threads : InTeardown(t) => mu[thread[t].target] = t)
    /\ [][\A t \in Threads :
             (thread[t].target # 0 /\ thread'[t].target = 0)
             => mu'[thread[t].target] = 0]_vars
    /\ \A t \in Threads : (thread[t].target # 0) ~> (thread[t].target = 0)

\* A Close waits in s.mu.Lock() while another Close of the same Sandbox is in
\* its teardown.
C38_Witness ==
    \E t, u \in Threads :
        /\ t # u
        /\ thread[t].pc = "lock"
        /\ InTeardown(u)
        /\ thread[u].target = thread[t].target
        /\ mu[thread[t].target] = u

(***************************************************************************)
(* C39. Applying replaceDBName twice makes the last name win: for every    *)
(* descriptor d, of the keyword/value or of the URL form, and names a and  *)
(* b, replaceDBName(replaceDBName(d, a), b) = replaceDBName(d, b). Stated  *)
(* as written; on a descriptor without "dbname=" the first call appends    *)
(* the parameter to the last field and the second call does not find it.   *)
(***************************************************************************)
C39_LastNameWins ==
    result.again => result.out2 = replaceDBName(connStr, result.second)
====
